---- MODULE Spec2Model ----
(***************************************************************************)
(* A model of MotionDescriptor (src/MotionDescriptor.py): the per-frame    *)
(* descriptor builder, the primitive classifier, the velocity estimator    *)
(* and the session history with its start time and distinct-primitive set, *)
(* its window queries, statistics and export, and of the loader of         *)
(* MotionAnalyzer (src/MotionAnalyzer.py).                                 *)
(*                                                                         *)
(* Representation choices:                                                 *)
(*   - An optional value is <<>> (Python's None, or an absent key) or     *)
(*     <<v>> (the value v).                                                *)
(*   - A landmark list is a sequence of <<id, x, y>>; Python index k is    *)
(*     TLA+ index k + 1 (operator At).                                     *)
(*   - time.time() readings are integers (clock ticks).  time.time() is    *)
(*     the wall clock: successive readings may be equal, may grow, and     *)
(*     may step back when the system clock is set.                         *)
(*   - A float quotient a / b is the pair <<a, b>> (operator Div).         *)
(*   - math.hypot(dx, dy) is kept as its square dx*dx + dy*dy; for integer *)
(*     pixel coordinates hypot(dx, dy) < 40 iff dx*dx + dy*dy < 1600.      *)
(*   - velocity['direction'] (atan2) is not modelled.                      *)
(*   - get_statistics adds, divides and compares velocity magnitudes as    *)
(*     binary64 floats; these are modelled digit by digit (FromRatio,      *)
(*     FAdd, FDivInt, FLess), sum() adding left to right.                  *)
(*   - save_sequence and MotionAnalyzer share one file, the variable disk. *)
(*   - The programs that drive the object (the main loops of               *)
(*     AiVirtualMouseProject.py and AiVirtualMouseProject_Enhanced.py, the *)
(*     batch recorder of batch_record.py) keep their state in the record   *)
(*     app; pc is the place in the loop, and the camera, the detector and  *)
(*     the keyboard are inputs.  Drawing and mouse control are left out.   *)
(***************************************************************************)
EXTENDS Integers, Sequences, FiniteSets, TLC

\* motion_history, primitives_seen, recording_start_time: the attributes of
\* the MotionDescriptor object.  last: the last call and what it returned
\* or raised.  cleared: whether clear_history has been called.  disk: the
\* content of the file save_sequence writes and MotionAnalyzer reads (None
\* while the file does not exist).  app: the state of the program that
\* drives the object (NoApp while the object is called directly).
VARIABLES motion_history, primitives_seen, recording_start_time, last, cleared,
          disk, app

vars == <<motion_history, primitives_seen, recording_start_time, last, cleared,
          disk, app>>

session == <<motion_history, primitives_seen, recording_start_time>>

\* An optional value: None, or Some(v) with Val(Some(v)) = v.
None == <<>>
Some(v) == <<v>>
Val(o) == o[1]

(* ------------------------------ bounds -------------------------------- *)

\* Longest history explored in the session specifications.
MaxHist == 2

\* Longest history explored in the classification specification.
MaxHistC == 2

\* Clock readings range over 0..MaxTime.
MaxTime == 1

\* Longest history explored in the query specification.
MaxHistQ == 2

\* Longest history explored in the statistics specification.
MaxHistV == 4

\* Longest history explored in the save and load specification.
MaxHistS == 2

\* Longest history explored in the load specification.
MaxHistL == 1

\* Longest history explored in the normalization specification.
MaxHistN == 2

\* Passes of a main loop explored in the application specification.
MaxTicks == 6

\* Most frames counted in one attempt, and gestures recorded, in the
\* batch specification.
MaxFrames == 20
MaxGestures == 2

\* Longest history explored in the operations specification.
MaxHistO == 1

(* --------------------------- program constants ------------------------ *)

\* pinch_dist < 40
PinchThreshold == 40

\* len(lmList) < 21
NumLandmarks == 21

\* len(fingers) != 5
NumFingers == 5

(* ------------------------------ helpers ------------------------------- *)

\* lmList[k] for a Python (0-based) index k.
At(lmList, k) == lmList[k + 1]

\* lmList[k][1] and lmList[k][2].
PX(lmList, k) == At(lmList, k)[2]
PY(lmList, k) == At(lmList, k)[3]

\* {'x': lmList[k][1], 'y': lmList[k][2]}
Point(lmList, k) == [x |-> PX(lmList, k), y |-> PY(lmList, k)]

\* The float quotient a / b, kept exact.
Div(a, b) == <<a, b>>

RECURSIVE SumSeq(_)
\* sum(fingers)
SumSeq(s) == IF s = <<>> THEN 0 ELSE s[1] + SumSeq(Tail(s))

RECURSIVE JoinStr(_)
\* ''.join(str(f) for f in fingers)
JoinStr(s) == IF s = <<>> THEN "" ELSE ToString(s[1]) \o JoinStr(Tail(s))

(* ----------------------- MotionDescriptor helpers --------------------- *)

\* Mutant: the code leaves out the last finger.
_encode_handshape_short(fingers) == JoinStr(SubSeq(fingers, 1, Len(fingers) - 1))

_encode_handshape(fingers) == JoinStr(fingers)

\* math.hypot(x2 - x1, y2 - y1), squared.
_calculate_pinch(lmList) ==
    IF Len(lmList) < 9 THEN 0
    ELSE LET dx == PX(lmList, 8) - PX(lmList, 4)
             dy == PY(lmList, 8) - PY(lmList, 4)
         IN  dx * dx + dy * dy

_calculate_openness(fingers) == Div(SumSeq(fingers), Len(fingers))

\* math.hypot(x2 - x1, y2 - y1), squared.
_calculate_span(lmList) ==
    IF Len(lmList) < 21 THEN 0
    ELSE LET dx == PX(lmList, 20) - PX(lmList, 4)
             dy == PY(lmList, 20) - PY(lmList, 4)
         IN  dx * dx + dy * dy

_calculate_palm_center(lmList) ==
    IF Len(lmList) < 10 THEN [x |-> Div(0, 1), y |-> Div(0, 1)]
    ELSE [x |-> Div(PX(lmList, 0) + PX(lmList, 9), 2),
          y |-> Div(PY(lmList, 0) + PY(lmList, 9), 2)]

\* curr_time is the clock reading taken inside _calculate_velocity.
_calculate_velocity(lmList, history, curr_time) ==
    IF Len(history) < 1 THEN None
    ELSE IF Len(lmList) < 9 THEN None
    ELSE LET prev   == history[Len(history)]
             dx     == PX(lmList, 8) - prev.landmarks.index_tip.x
             dy     == PY(lmList, 8) - prev.landmarks.index_tip.y
             dt     == curr_time - prev.timestamp
         IN  IF dt = 0 THEN None
             ELSE Some([vx           |-> Div(dx, dt),
                        vy           |-> Div(dy, dt),
                        magnitude_sq |-> Div(dx * dx + dy * dy, dt * dt)])

\* Mutant: the threshold is inclusive.
PinchLabel_inclusive(lmList) ==
    IF _calculate_pinch(lmList) <= PinchThreshold * PinchThreshold
    THEN "OK_SIGN" ELSE "PINCH_READY"

\* The body of the thumb+index branch: pinch_dist < 40.
PinchLabel(lmList) ==
    IF _calculate_pinch(lmList) < PinchThreshold * PinchThreshold
    THEN "OK_SIGN" ELSE "PINCH_READY"

\* Mutant: the fist rule takes every hand with at most one finger up.
_classify_primitive_fist_le1(fingers, lmList) ==
    IF fingers = <<0, 1, 0, 0, 0>> THEN "POINT"
    ELSE IF fingers = <<0, 1, 1, 0, 0>> THEN "PEACE_V"
    ELSE IF fingers = <<1, 1, 1, 1, 1>> THEN "OPEN_HAND"
    ELSE IF SumSeq(fingers) <= 1 THEN "FIST"
    ELSE IF fingers = <<1, 0, 0, 0, 0>> THEN "THUMBS_UP"
    ELSE IF fingers = <<1, 1, 0, 0, 0>> THEN PinchLabel(lmList)
    ELSE IF fingers = <<0, 1, 1, 1, 0>> THEN "THREE"
    ELSE IF fingers = <<0, 1, 1, 1, 1>> THEN "FOUR"
    ELSE IF fingers = <<0, 0, 0, 0, 1>> THEN "PINKY"
    ELSE "UNKNOWN_" \o _encode_handshape(fingers)

\* Mutant: the pinch of the thumb+index branch is measured on the previous
\* frame's index tip when the session has one.
_classify_primitive_stale(fingers, lmList) ==
    LET n    == Len(motion_history)
        ix   == IF n > 0 THEN motion_history[n].landmarks.index_tip.x ELSE PX(lmList, 8)
        iy   == IF n > 0 THEN motion_history[n].landmarks.index_tip.y ELSE PY(lmList, 8)
        dx   == ix - PX(lmList, 4)
        dy   == iy - PY(lmList, 4)
        near == dx * dx + dy * dy < PinchThreshold * PinchThreshold
    IN  IF fingers = <<0, 1, 0, 0, 0>> THEN "POINT"
        ELSE IF fingers = <<0, 1, 1, 0, 0>> THEN "PEACE_V"
        ELSE IF fingers = <<1, 1, 1, 1, 1>> THEN "OPEN_HAND"
        ELSE IF SumSeq(fingers) = 0 THEN "FIST"
        ELSE IF fingers = <<1, 0, 0, 0, 0>> THEN "THUMBS_UP"
        ELSE IF fingers = <<1, 1, 0, 0, 0>> THEN
            (IF near THEN "OK_SIGN" ELSE "PINCH_READY")
        ELSE IF fingers = <<0, 1, 1, 1, 0>> THEN "THREE"
        ELSE IF fingers = <<0, 1, 1, 1, 1>> THEN "FOUR"
        ELSE IF fingers = <<0, 0, 0, 0, 1>> THEN "PINKY"
        ELSE "UNKNOWN_" \o _encode_handshape(fingers)

_classify_primitive(fingers, lmList) ==
    IF fingers = <<0, 1, 0, 0, 0>> THEN "POINT"
    ELSE IF fingers = <<0, 1, 1, 0, 0>> THEN "PEACE_V"
    ELSE IF fingers = <<1, 1, 1, 1, 1>> THEN "OPEN_HAND"
    ELSE IF SumSeq(fingers) = 0 THEN "FIST"
    ELSE IF fingers = <<1, 0, 0, 0, 0>> THEN "THUMBS_UP"
    ELSE IF fingers = <<1, 1, 0, 0, 0>> THEN PinchLabel(lmList)
    ELSE IF fingers = <<0, 1, 1, 1, 0>> THEN "THREE"
    ELSE IF fingers = <<0, 1, 1, 1, 1>> THEN "FOUR"
    ELSE IF fingers = <<0, 0, 0, 0, 1>> THEN "PINKY"
    ELSE "UNKNOWN_" \o _encode_handshape(fingers)

\* True when _normalize_coordinates raises ZeroDivisionError.
NormalizeRaises(frame_shape) == frame_shape[1] = 0 \/ frame_shape[2] = 0

\* Mutant: the frame shape is unpacked as (width, height).
_normalize_coordinates_swapped(landmarks, palm, frame_shape) ==
    LET height == frame_shape[2]
        width  == frame_shape[1]
        N(p)   == [x |-> Div(p.x, width), y |-> Div(p.y, height)]
    IN  [wrist       |-> N(landmarks.wrist),
         thumb_tip   |-> N(landmarks.thumb_tip),
         index_tip   |-> N(landmarks.index_tip),
         middle_tip  |-> N(landmarks.middle_tip),
         ring_tip    |-> N(landmarks.ring_tip),
         pinky_tip   |-> N(landmarks.pinky_tip),
         palm_center |-> [x |-> Div(palm.x, width), y |-> Div(palm.y, height)]]

\* frame_shape is (height, width).
_normalize_coordinates(landmarks, palm, frame_shape) ==
    LET height == frame_shape[1]
        width  == frame_shape[2]
        N(p)   == [x |-> Div(p.x, width), y |-> Div(p.y, height)]
    IN  [wrist       |-> N(landmarks.wrist),
         thumb_tip   |-> N(landmarks.thumb_tip),
         index_tip   |-> N(landmarks.index_tip),
         middle_tip  |-> N(landmarks.middle_tip),
         ring_tip    |-> N(landmarks.ring_tip),
         pinky_tip   |-> N(landmarks.pinky_tip),
         palm_center |-> [x |-> Div(palm.x, width), y |-> Div(palm.y, height)]]

\* Mutant: the finger vector is not validated.
ValidFrame_landmarks_only(lmList, fingers) ==
    ~(Len(lmList) = 0 \/ Len(lmList) < NumLandmarks)

\* The two validation guards at the top of create_descriptor.
ValidFrame(lmList, fingers) ==
    /\ ~(Len(lmList) = 0 \/ Len(lmList) < NumLandmarks)
    /\ ~(Len(fingers) = 0 \/ Len(fingers) # NumFingers)

\* The session start time after the "if self.recording_start_time is None".
StartTime(start, timestamp) == IF start = None THEN Some(timestamp) ELSE start

\* The velocity entry of the descriptor literal.
VelocityField(lmList, history, curr_time) ==
    IF Len(history) > 0 THEN _calculate_velocity(lmList, history, curr_time)
    ELSE None

\* The descriptor dict literal.  timestamp is the first clock reading,
\* curr_time the one taken while computing the velocity.
Descriptor(lmList, fingers, frame_shape, history, start, timestamp, curr_time) ==
    LET landmarks == [wrist      |-> Point(lmList, 0),
                      thumb_tip  |-> Point(lmList, 4),
                      index_tip  |-> Point(lmList, 8),
                      middle_tip |-> Point(lmList, 12),
                      ring_tip   |-> Point(lmList, 16),
                      pinky_tip  |-> Point(lmList, 20)]
        palm == _calculate_palm_center(lmList)
    IN  [timestamp        |-> timestamp,
         relative_time    |-> timestamp - Val(start),
         frame_num        |-> Len(history),
         hand             |-> "right",
         fingers_extended |-> fingers,
         finger_count     |-> SumSeq(fingers),
         handshape_code   |-> _encode_handshape(fingers),
         landmarks        |-> landmarks,
         features         |-> [pinch_distance |-> _calculate_pinch(lmList),
                               hand_openness  |-> _calculate_openness(fingers),
                               hand_span      |-> _calculate_span(lmList),
                               palm_center    |-> palm],
         primitive        |-> _classify_primitive(fingers, lmList),
         velocity         |-> VelocityField(lmList, history, curr_time),
         normalized       |-> IF frame_shape = None THEN None
                              ELSE Some(_normalize_coordinates(landmarks, palm, frame_shape))]

\* What the caller of the last operation observed.
Called(op, lmList, fingers, result) ==
    [op |-> op, lmLen |-> Len(lmList), fLen |-> Len(fingers), result |-> result]

(* ------------------------------ actions ------------------------------- *)

\* No program: the object is called directly.
NoApp == [kind |-> "none"]

Init ==
    /\ motion_history = <<>>
    /\ primitives_seen = {}
    /\ recording_start_time = None
    /\ last = [op |-> "__init__", lmLen |-> 0, fLen |-> 0, result |-> "None"]
    /\ cleared = FALSE
    /\ disk = None
    /\ app = NoApp

\* create_descriptor, with its two clock readings as inputs.
create_descriptor(lmList, fingers, frame_shape, timestamp, curr_time) ==
    /\ UNCHANGED <<cleared, disk>>
    /\ IF ~ValidFrame(lmList, fingers)
       THEN /\ last' = Called("create_descriptor", lmList, fingers, "None")
            /\ UNCHANGED session
       ELSE LET start == StartTime(recording_start_time, timestamp) IN
            IF frame_shape # None /\ NormalizeRaises(frame_shape)
            THEN /\ recording_start_time' = start
                 /\ last' = Called("create_descriptor", lmList, fingers, "ZeroDivisionError")
                 /\ UNCHANGED <<motion_history, primitives_seen>>
            ELSE LET d == Descriptor(lmList, fingers, frame_shape, motion_history,
                                     start, timestamp, curr_time)
                 IN  /\ recording_start_time' = start
                     /\ primitives_seen' = primitives_seen \cup {d.primitive}
                     /\ motion_history' = Append(motion_history, d)
                     /\ last' = Called("create_descriptor", lmList, fingers, "descriptor")

\* Mutant: only the newest descriptor is dropped.
clear_history_pop ==
    /\ motion_history' = SubSeq(motion_history, 1, Len(motion_history) - 1)
    /\ primitives_seen' = {}
    /\ recording_start_time' = None
    /\ last' = [op |-> "clear_history", lmLen |-> 0, fLen |-> 0, result |-> "None"]
    /\ cleared' = TRUE
    /\ UNCHANGED disk

\* Mutant: the distinct-primitive set is not reset.
clear_history_keeps_labels ==
    /\ motion_history' = <<>>
    /\ UNCHANGED primitives_seen
    /\ recording_start_time' = None
    /\ last' = [op |-> "clear_history", lmLen |-> 0, fLen |-> 0, result |-> "None"]
    /\ cleared' = TRUE
    /\ UNCHANGED disk

clear_history ==
    /\ motion_history' = <<>>
    /\ primitives_seen' = {}
    /\ recording_start_time' = None
    /\ last' = [op |-> "clear_history", lmLen |-> 0, fLen |-> 0, result |-> "None"]
    /\ cleared' = TRUE
    /\ UNCHANGED disk

(* ----------------------- Python float arithmetic ---------------------- *)

\* The floats get_statistics adds, divides and compares are IEEE-754
\* binary64 values that are zero or positive and normal.  FZero is 0.0;
\* [m |-> bits, e |-> e] is int(bits) * 2^e, bits being the 53 significand
\* bits, most significant (a 1) first.  Results are rounded to nearest,
\* ties to even.
SignificandBits == 53

FZero == [m |-> <<>>, e |-> 0]

Abs(x) == IF x < 0 THEN -x ELSE x

Zeros(k) == [i \in 1 .. k |-> 0]

RECURSIVE IntBits(_)
\* The binary digits of n >= 0, most significant first.
IntBits(n) == IF n = 0 THEN <<>> ELSE Append(IntBits(n \div 2), n % 2)

\* A binary numeral without its leading zeros.
StripZeros(b) ==
    LET ones == {i \in 1 .. Len(b) : b[i] = 1}
    IN  IF ones = {} THEN <<>>
        ELSE SubSeq(b, CHOOSE i \in ones : \A j \in ones : i <= j, Len(b))

RECURSIVE AddC(_, _, _, _, _)
\* Digits lo..hi of A + B (numerals of equal length) given the carry c into
\* digit hi, and the carry out of digit lo.
AddC(A, B, lo, hi, c) ==
    IF lo = hi
    THEN LET t == A[lo] + B[lo] + c
         IN  [bits |-> <<t % 2>>, carry |-> t \div 2]
    ELSE LET mid == (lo + hi) \div 2
             R   == AddC(A, B, mid + 1, hi, c)
             L   == IF R.carry = 0 THEN AddC(A, B, lo, mid, 0)
                    ELSE AddC(A, B, lo, mid, 1)
         IN  [bits |-> L.bits \o R.bits, carry |-> L.carry]

\* The sum of two binary numerals, at least one of them not empty.
BigAdd(A, B) ==
    LET n == IF Len(A) >= Len(B) THEN Len(A) ELSE Len(B)
        r == AddC(Zeros(n - Len(A)) \o A, Zeros(n - Len(B)) \o B, 1, n, 0)
    IN  (IF r.carry = 1 THEN <<1>> ELSE <<>>) \o r.bits

RECURSIVE LongDiv(_, _, _, _, _)
\* Long division of the digits bits[lo..hi] by n, entered with remainder r:
\* the quotient digits and the remainder left.
LongDiv(bits, lo, hi, r, n) ==
    IF lo = hi
    THEN LET t  == 2 * r + bits[lo]
             qb == IF t >= n THEN 1 ELSE 0
         IN  [bits |-> <<qb>>, rem |-> t - qb * n]
    ELSE LET mid == (lo + hi) \div 2
             L   == LongDiv(bits, lo, mid, r, n)
             R   == LongDiv(bits, mid + 1, hi, L.rem, n)
         IN  [bits |-> L.bits \o R.bits, rem |-> R.rem]

\* The float nearest to int(bits) * 2^e (plus a nonzero amount below the
\* last digit when sticky); callers pass more than 53 significant digits
\* whenever sticky is set.
FRound(bits, e, sticky) ==
    LET b == StripZeros(bits)
        L == Len(b)
    IN  IF L = 0 THEN FZero
        ELSE IF L <= SignificandBits
        THEN [m |-> b \o Zeros(SignificandBits - L), e |-> e - (SignificandBits - L)]
        ELSE LET m  == SubSeq(b, 1, SignificandBits)
                 g  == b[SignificandBits + 1]
                 s  == sticky \/ \E i \in SignificandBits + 2 .. L : b[i] = 1
                 up == g = 1 /\ (s \/ m[SignificandBits] = 1)
                 e2 == e + (L - SignificandBits)
                 r  == IF up THEN BigAdd(m, <<1>>) ELSE m
             IN  IF Len(r) > SignificandBits
                 THEN [m |-> SubSeq(r, 1, SignificandBits), e |-> e2 + 1]
                 ELSE [m |-> r, e |-> e2]

\* The float a / b for integers a >= 0 and b > 0.
FromRatio(a, b) ==
    IF a = 0 THEN FZero
    ELSE LET k == SignificandBits + 2 + Len(IntBits(b))
             n == IntBits(a) \o Zeros(k)
             q == LongDiv(n, 1, Len(n), 0, b)
         IN  FRound(q.bits, -k, q.rem # 0)

\* x + y.
FAdd(x, y) ==
    IF x = FZero THEN y
    ELSE IF y = FZero THEN x
    ELSE LET hi == IF x.e >= y.e THEN x ELSE y
             lo == IF x.e >= y.e THEN y ELSE x
         IN  FRound(BigAdd(hi.m \o Zeros(hi.e - lo.e), lo.m), lo.e, FALSE)

\* x / n for an integer n > 0.
FDivInt(x, n) ==
    IF x = FZero THEN FZero
    ELSE LET k == Len(IntBits(n)) + 2
             d == x.m \o Zeros(k)
             q == LongDiv(d, 1, Len(d), 0, n)
         IN  FRound(q.bits, x.e - k, q.rem # 0)

\* x < y.
FLess(x, y) ==
    IF y = FZero THEN FALSE
    ELSE IF x = FZero THEN TRUE
    ELSE \/ x.e < y.e
         \/ /\ x.e = y.e
            /\ \E i \in 1 .. SignificandBits :
                  /\ x.m[i] < y.m[i]
                  /\ \A j \in 1 .. i - 1 : x.m[j] = y.m[j]

RECURSIVE FSum(_, _)
\* sum(v[:i]): the elements are added left to right, each addition rounded.
FSum(v, i) == IF i = 0 THEN FZero ELSE FAdd(FSum(v, i - 1), v[i])

RECURSIVE FMax(_, _)
\* max(v[:i]) for i >= 1.
FMax(v, i) ==
    IF i = 1 THEN v[1]
    ELSE LET r == FMax(v, i - 1) IN IF FLess(r, v[i]) THEN v[i] ELSE r

RECURSIVE FMin(_, _)
\* min(v[:i]) for i >= 1.
FMin(v, i) ==
    IF i = 1 THEN v[1]
    ELSE LET r == FMin(v, i - 1) IN IF FLess(v[i], r) THEN v[i] ELSE r

(* ------------------------------ queries ------------------------------- *)

\* Mutant: the window includes the cutoff itself.
InWindow_inclusive(m, cutoff_time) == m.timestamp >= cutoff_time

\* The filter of the list comprehension: m['timestamp'] > cutoff_time.
InWindow(m, cutoff_time) == m.timestamp > cutoff_time

\* What get_motion_sequence returns; now is its reading of the clock, which
\* it takes only when the history is not empty.
MotionSequence(history, window_seconds, now) ==
    IF history = <<>> THEN <<>>
    ELSE LET cutoff_time == now - window_seconds
         IN  SelectSeq(history, LAMBDA m : InWindow(m, cutoff_time))

\* What get_primitive_sequence returns.
PrimitiveSequence(history, window_seconds, now) ==
    LET seq == MotionSequence(history, window_seconds, now)
    IN  [i \in 1 .. Len(seq) |-> seq[i].primitive]

get_motion_sequence(window_seconds, now) ==
    /\ last' = [op |-> "get_motion_sequence", window_seconds |-> window_seconds,
                now |-> now,
                result |-> MotionSequence(motion_history, window_seconds, now)]
    /\ UNCHANGED <<session, cleared, disk>>

get_primitive_sequence(window_seconds, now) ==
    /\ last' = [op |-> "get_primitive_sequence", window_seconds |-> window_seconds,
                now |-> now,
                result |-> PrimitiveSequence(motion_history, window_seconds, now)]
    /\ UNCHANGED <<session, cleared, disk>>

(* ----------------------------- statistics ----------------------------- *)

\* m['velocity']['magnitude'], the float math.hypot(vx, vy) of the float
\* quotients vx = dx / dt and vy = dy / dt.  hypot is exact, |vx| or |vy|,
\* when the index tip moved along one axis or not at all; a move off the
\* axes is left as the unevaluated pair.
Magnitude(v) ==
    IF v.vy[1] = 0 THEN FromRatio(Abs(v.vx[1]), Abs(v.vx[2]))
    ELSE IF v.vx[1] = 0 THEN FromRatio(Abs(v.vy[1]), Abs(v.vy[2]))
    ELSE [hypot |-> <<v.vx, v.vy>>]

\* Mutant: a descriptor without a velocity counts as magnitude 0.
Velocities_all(history) ==
    [i \in 1 .. Len(history) |->
        IF history[i].velocity # None THEN Magnitude(Val(history[i].velocity))
        ELSE FZero]

\* [m['velocity']['magnitude'] for m in history if m['velocity'] is not None]
Velocities(history) ==
    LET withV == SelectSeq(history, LAMBDA m : m.velocity # None)
    IN  [i \in 1 .. Len(withV) |-> Magnitude(Val(withV[i].velocity))]

\* Mutant: the label is counted in the set of labels.
CountOf_in_set(primitives, p) ==
    Cardinality({q \in {primitives[i] : i \in 1 .. Len(primitives)} : q = p})

\* primitives.count(p)
CountOf(primitives, p) ==
    Cardinality({i \in 1 .. Len(primitives) : primitives[i] = p})

\* The statistics of a history that is not empty.  average_fps is the
\* float quotient, or 0 (written 0 / 1).
HistoryStatistics(history) ==
    LET duration          == history[Len(history)].timestamp - history[1].timestamp
        fps               == IF duration > 0 THEN Div(Len(history), duration)
                             ELSE Div(0, 1)
        primitives        == [i \in 1 .. Len(history) |-> history[i].primitive]
        unique_primitives == {primitives[i] : i \in 1 .. Len(primitives)}
        velocities        == Velocities(history)
        n                 == Len(velocities)
    IN  [duration_seconds  |-> duration,
         total_frames      |-> Len(history),
         average_fps       |-> fps,
         primitive_counts  |-> [p \in unique_primitives |-> CountOf(primitives, p)],
         unique_primitives |-> Cardinality(unique_primitives),
         velocity_stats    |->
             IF velocities # <<>>
             THEN Some([mean |-> FDivInt(FSum(velocities, n), n),
                        max  |-> FMax(velocities, n),
                        min  |-> FMin(velocities, n)])
             ELSE None]

\* Mutant: the empty history is not singled out and motion_history[-1]
\* raises.
Statistics_unguarded(history) ==
    IF history = <<>> THEN [raised |-> "IndexError"]
    ELSE HistoryStatistics(history)

\* What get_statistics returns.
Statistics(history) ==
    IF history = <<>> THEN [error |-> "No motion history"]
    ELSE HistoryStatistics(history)

get_statistics ==
    /\ last' = [op |-> "get_statistics", result |-> Statistics(motion_history)]
    /\ UNCHANGED <<session, cleared, disk>>

(* --------------------------- save and load ---------------------------- *)

\* JSON text is modelled by the value it spells: an object is a record, an
\* array a sequence, null is JsonNull; a key the dict does not have stays
\* absent.  A file holds [kind |-> "json", value |-> v], or
\* [kind |-> "truncated"] when the writer stopped in the middle.
JsonNull == [null |-> TRUE]

\* A descriptor as json.dump spells it: a velocity of None becomes null.
JsonFrame(m) ==
    [m EXCEPT !.velocity = IF m.velocity = None THEN JsonNull
                           ELSE Val(m.velocity)]

\* A frame as json.load reads it: null becomes None; an object without a
\* velocity entry is read as it is.
PyFrame(j) ==
    IF "velocity" \notin DOMAIN j THEN j
    ELSE [j EXCEPT !.velocity = IF j.velocity = JsonNull THEN None
                                ELSE Some(j.velocity)]

\* json.dump(data, f, indent=2), when every value can be encoded.
JsonDump(data) ==
    [kind  |-> "json",
     value |-> [metadata |-> data.metadata,
                frames   |-> [i \in 1 .. Len(data.frames) |->
                                 JsonFrame(data.frames[i])]]]

\* json.load(f) of a file that holds a complete JSON object: the entries
\* the object has, and no others.
JsonLoad(file) ==
    [k \in DOMAIN file.value |->
        IF k = "frames"
        THEN [i \in 1 .. Len(file.value.frames) |->
                 PyFrame(file.value.frames[i])]
        ELSE file.value[k]]

\* The file json.dump leaves when it raises on a value of the custom
\* metadata: open(filename, 'w') has emptied the file and the text ends
\* inside the "custom" entry.
Truncated == [kind |-> "truncated"]

\* Whether json can encode the custom metadata: a Python set, written
\* [pyset |-> S], is not JSON serializable.
Encodable(custom) ==
    \A k \in DOMAIN custom : "pyset" \notin DOMAIN custom[k]

\* Mutant: the guard is "duration != 0".
SaveFps_nonzero(n, duration) ==
    IF duration # 0 THEN Div(n, duration) ELSE Div(0, 1)

\* fps = len(self.motion_history) / duration if duration > 0 else 0
SaveFps(n, duration) ==
    IF duration > 0 THEN Div(n, duration) ELSE Div(0, 1)

\* Mutant: the first frame is left out of the record.
SavedFrames_tail(history) == Tail(history)

\* 'frames': self.motion_history
SavedFrames(history) == history

\* The orders in which list(a_set) can enumerate a set.
Orderings(S) ==
    {q \in [1 .. Cardinality(S) -> S] :
        \A i, j \in 1 .. Cardinality(S) : i # j => q[i] # q[j]}

\* The dict save_sequence compiles for a history that is not empty; used
\* is list(self.primitives_seen), recorded_at the clock reading of
\* datetime.now(), and an empty dict is <<>>.
SessionData(history, used, gesture_name, recorded_at, metadata) ==
    LET duration == history[Len(history)].timestamp - history[1].timestamp
    IN  [metadata |->
            [gesture_name     |-> gesture_name,
             recorded_at      |-> ToString(recorded_at),
             duration_seconds |-> duration,
             total_frames     |-> Len(history),
             average_fps      |-> SaveFps(Len(history), duration),
             primitives_used  |-> used,
             custom           |-> IF metadata = None \/ Val(metadata) = <<>>
                                  THEN <<>> ELSE Val(metadata)],
         frames |-> SavedFrames(history)]

\* What the caller of save_sequence observes, the return value, and what
\* the call printed.
Saved(printed) ==
    [op |-> "save_sequence", result |-> "None", printed |-> printed]

\* Mutant: the history is reset once the record is written.
save_sequence_resets(gesture_name, metadata, recorded_at, can_open) ==
    /\ UNCHANGED cleared
    /\ IF motion_history = <<>> \/ ~can_open
       THEN /\ last' = Saved("Warning: No motion history to save")
            /\ UNCHANGED <<session, disk>>
       ELSE \E used \in Orderings(primitives_seen) :
            /\ last' = Saved("Saved")
            /\ disk' = Some(JsonDump(SessionData(motion_history, used,
                                gesture_name, recorded_at, metadata)))
            /\ motion_history' = <<>>
            /\ primitives_seen' = {}
            /\ recording_start_time' = None

\* save_sequence on the one file of the model.  can_open: whether
\* open(filename, 'w') succeeds.
save_sequence(gesture_name, metadata, recorded_at, can_open) ==
    /\ UNCHANGED <<session, cleared>>
    /\ IF motion_history = <<>>
       THEN /\ last' = Saved("Warning: No motion history to save")
            /\ UNCHANGED disk
       ELSE \E used \in Orderings(primitives_seen) :
            LET data == SessionData(motion_history, used, gesture_name,
                                    recorded_at, metadata)
            IN  IF ~can_open
                THEN /\ last' = Saved("Error saving motion data")
                     /\ UNCHANGED disk
                ELSE IF ~Encodable(data.metadata.custom)
                THEN /\ last' = Saved("Error saving motion data")
                     /\ disk' = Some(Truncated)
                ELSE /\ last' = Saved("Saved")
                     /\ disk' = Some(JsonDump(data))

\* MotionAnalyzer._load_data: the parsed dict, or None.
_load_data(file) ==
    IF file = None THEN None
    ELSE IF Val(file).kind = "truncated" THEN None
    ELSE LET data == JsonLoad(Val(file))
         IN  IF "metadata" \notin DOMAIN data \/ "frames" \notin DOMAIN data
             THEN None
             ELSE Some(data)

\* Whether a subscript of MotionAnalyzer.__init__ raises KeyError: it reads
\* gesture_name, duration_seconds and average_fps of the metadata.
MissingKey(data) ==
    \E k \in {"gesture_name", "duration_seconds", "average_fps"} :
        k \notin DOMAIN data.metadata

\* MotionAnalyzer(json_file) on the file of the model.
MotionAnalyzer ==
    /\ UNCHANGED <<session, cleared, disk>>
    /\ LET data == _load_data(disk)
       IN  IF data = None
           THEN last' = [op |-> "MotionAnalyzer", result |-> "ValueError"]
           ELSE IF MissingKey(Val(data))
           THEN last' = [op |-> "MotionAnalyzer", result |-> "KeyError"]
           ELSE last' = [op           |-> "MotionAnalyzer",
                         result       |-> "analyzer",
                         data         |-> Val(data),
                         gesture_name |-> Val(data).metadata.gesture_name,
                         frames       |-> Val(data).frames,
                         duration     |-> Val(data).metadata.duration_seconds,
                         fps          |-> Val(data).metadata.average_fps]

(* --------------------------- the main loops --------------------------- *)

\* The camera frame size of AiVirtualMouseProject.py and of
\* AiVirtualMouseProject_Enhanced.py.
hCam == 480
wCam == 640
CAMERA_HEIGHT == 480
CAMERA_WIDTH == 640

\* The state of a main loop before its first pass.  pc is "frame" before
\* cap.read(), "key" before cv2.waitKey, "stats" between save_sequence and
\* get_statistics, "quit" after the loop, or the exception that ended the
\* program.  tick counts the passes and is the clock reading of the pass;
\* r_tick is the pass in which recording last started, key the key last
\* handled, and ended how the recordings so far ended: "saved" (an 's'
\* that called save_sequence), "empty" (an 's' with nothing to save) or
\* "cancelled" (none of the three is a variable of the program).
AppStart(kind) ==
    [kind           |-> kind,
     pc             |-> "frame",
     recording_mode |-> FALSE,
     gesture_name   |-> None,
     frame_count    |-> 0,
     tick           |-> 0,
     r_tick         |-> 0,
     key            |-> "none",
     ended          |-> <<>>]

\* A step of the program that calls nothing on the object.
AppOnly == UNCHANGED <<session, last, cleared, disk>>

\* Whether the cursor-control branch raises IndexError: it subscripts
\* fingers[1], and fingers[2] when fingers[1] == 1.
CursorRaises(fingers) ==
    Len(fingers) < 2 \/ (Len(fingers) = 2 /\ fingers[2] = 1)

\* cap.read() fails: the loop ends.
capture_failed ==
    /\ app.kind = "main"
    /\ app.pc = "frame"
    /\ app' = [app EXCEPT !.pc = "quit"]
    /\ AppOnly

\* A pass of the loop of AiVirtualMouseProject.py from cap.read() to
\* cv2.imshow, on what the detector returns for the frame.
capture(lmList, fingers) ==
    /\ app.kind = "main"
    /\ app.pc = "frame"
    /\ app.tick < MaxTicks
    /\ LET now  == app.tick + 1
           seen == [app EXCEPT !.tick = now, !.pc = "key"]
       IN  IF Len(lmList) = 0
           THEN app' = seen /\ AppOnly
           ELSE IF Len(lmList) < 13
           THEN app' = [seen EXCEPT !.pc = "IndexError"] /\ AppOnly
           ELSE /\ create_descriptor(lmList, fingers, <<hCam, wCam>>, now, now)
                /\ app' = IF app.recording_mode
                          THEN [seen EXCEPT !.frame_count = @ + 1]
                          ELSE IF CursorRaises(fingers)
                          THEN [seen EXCEPT !.pc = "IndexError"]
                          ELSE seen

\* Mutant: recording starts on the history as it is.
key_r_keeps_history(name) ==
    /\ app.kind = "main"
    /\ app.pc = "key"
    /\ ~app.recording_mode
    /\ AppOnly
    /\ app' = [app EXCEPT !.pc = "frame", !.key = "r",
                          !.gesture_name = Some(name),
                          !.recording_mode = (name # ""),
                          !.frame_count = 0,
                          !.r_tick = IF name # "" THEN app.tick ELSE @]

\* 'r' outside recording mode; name is what input() returns, stripped.
key_r(name) ==
    /\ app.kind = "main"
    /\ app.pc = "key"
    /\ ~app.recording_mode
    /\ IF name # ""
       THEN /\ clear_history
            /\ app' = [app EXCEPT !.pc = "frame", !.key = "r",
                                  !.gesture_name = Some(name),
                                  !.recording_mode = TRUE,
                                  !.frame_count = 0,
                                  !.r_tick = app.tick]
       ELSE /\ AppOnly
            /\ app' = [app EXCEPT !.pc = "frame", !.key = "r",
                                  !.gesture_name = Some(name)]

\* 's' in recording mode, up to the return of save_sequence.
key_s(can_open) ==
    /\ app.kind = "main"
    /\ app.pc = "key"
    /\ app.recording_mode
    /\ IF app.frame_count > 0
       THEN /\ save_sequence(Val(app.gesture_name), None, app.tick, can_open)
            /\ app' = [app EXCEPT !.pc = "stats", !.key = "s",
                                  !.recording_mode = FALSE,
                                  !.ended = Append(@, "saved")]
       ELSE /\ AppOnly
            /\ app' = [app EXCEPT !.pc = "frame", !.key = "s",
                                  !.recording_mode = FALSE,
                                  !.gesture_name = None,
                                  !.frame_count = 0,
                                  !.ended = Append(@, "empty")]

\* The rest of the 's' branch: get_statistics and the subscripts of its
\* result, which raise KeyError on the no-data result.
show_statistics ==
    /\ app.kind = "main"
    /\ app.pc = "stats"
    /\ get_statistics
    /\ app' = IF "error" \in DOMAIN Statistics(motion_history)
              THEN [app EXCEPT !.pc = "KeyError"]
              ELSE [app EXCEPT !.pc = "frame",
                               !.gesture_name = None,
                               !.frame_count = 0]

\* 'c' in recording mode.
key_c ==
    /\ app.kind = "main"
    /\ app.pc = "key"
    /\ app.recording_mode
    /\ clear_history
    /\ app' = [app EXCEPT !.pc = "frame", !.key = "c",
                          !.recording_mode = FALSE,
                          !.gesture_name = None,
                          !.frame_count = 0,
                          !.ended = Append(@, "cancelled")]

\* 'q', and any key whose branch is not taken: no key, 'r' in recording
\* mode, 's' and 'c' outside it.
key_other(key) ==
    /\ app.kind = "main"
    /\ app.pc = "key"
    /\ key = "r" => app.recording_mode
    /\ key \in {"s", "c"} => ~app.recording_mode
    /\ AppOnly
    /\ app' = [app EXCEPT !.pc = IF key = "q" THEN "quit" ELSE "frame",
                          !.key = key]

\* cap.read() fails in AiVirtualMouseProject_Enhanced.py.
capture_failed_enhanced ==
    /\ app.kind = "enhanced"
    /\ app.pc = "frame"
    /\ app' = [app EXCEPT !.pc = "quit"]
    /\ AppOnly

\* A pass of the loop of AiVirtualMouseProject_Enhanced.py from cap.read()
\* to cv2.imshow.
capture_enhanced(lmList, fingers) ==
    /\ app.kind = "enhanced"
    /\ app.pc = "frame"
    /\ app.tick < MaxTicks
    /\ LET now  == app.tick + 1
           seen == [app EXCEPT !.tick = now, !.pc = "key"]
       IN  IF Len(lmList) = 0
           THEN app' = seen /\ AppOnly
           ELSE IF Len(lmList) < 13
           THEN app' = [seen EXCEPT !.pc = "IndexError"] /\ AppOnly
           ELSE /\ create_descriptor(lmList, fingers,
                                     <<CAMERA_HEIGHT, CAMERA_WIDTH>>, now, now)
                /\ app' = IF ~app.recording_mode /\ CursorRaises(fingers)
                          THEN [seen EXCEPT !.pc = "IndexError"]
                          ELSE seen

\* 'r' outside recording mode in the enhanced program.
key_r_enhanced(name) ==
    /\ app.kind = "enhanced"
    /\ app.pc = "key"
    /\ ~app.recording_mode
    /\ IF name # ""
       THEN /\ clear_history
            /\ app' = [app EXCEPT !.pc = "frame", !.key = "r",
                                  !.gesture_name = Some(name),
                                  !.recording_mode = TRUE,
                                  !.r_tick = app.tick]
       ELSE /\ AppOnly
            /\ app' = [app EXCEPT !.pc = "frame", !.key = "r",
                                  !.gesture_name = Some(name)]

\* 's' in recording mode in the enhanced program.
key_s_enhanced(can_open) ==
    /\ app.kind = "enhanced"
    /\ app.pc = "key"
    /\ app.recording_mode
    /\ app' = [app EXCEPT !.pc = "frame", !.key = "s",
                          !.recording_mode = FALSE,
                          !.gesture_name = None,
                          !.ended = Append(@, IF motion_history # <<>>
                                              THEN "saved" ELSE "empty")]
    /\ IF motion_history # <<>>
       THEN save_sequence(Val(app.gesture_name), None, app.tick, can_open)
       ELSE AppOnly

\* 'c' in recording mode in the enhanced program.
key_c_enhanced ==
    /\ app.kind = "enhanced"
    /\ app.pc = "key"
    /\ app.recording_mode
    /\ clear_history
    /\ app' = [app EXCEPT !.pc = "frame", !.key = "c",
                          !.recording_mode = FALSE,
                          !.gesture_name = None,
                          !.ended = Append(@, "cancelled")]

\* 'q', and any key whose branch is not taken, in the enhanced program.
key_other_enhanced(key) ==
    /\ app.kind = "enhanced"
    /\ app.pc = "key"
    /\ key = "r" => app.recording_mode
    /\ key \in {"s", "c"} => ~app.recording_mode
    /\ AppOnly
    /\ app' = [app EXCEPT !.pc = IF key = "q" THEN "quit" ELSE "frame",
                          !.key = key]

(* -------------------------- the batch recorder ------------------------ *)

\* batch_record.py: attempts per gesture, the gestures of
\* GESTURE_CATEGORIES, the fewest frames of a recording that is kept, and
\* the thresholds of the quality warnings.
ATTEMPTS_PER_GESTURE == 3
NumGestures == 15
MinFrames == 20
LowFps == 25
FewFrames == 30

\* The state of main() before the first attempt.  pc is "attempt" at the
\* top of record_single_gesture, "loop" in its while loop and after it,
\* "quality" after save_sequence, "retry" waiting at "Retry this
\* attempt?", "sleep" in time.sleep(2) between two attempts, "prompt"
\* waiting at "Continue to next gesture?", "paused" waiting at "Paused.
\* Press ENTER to continue...", "manifest" after the try statement, "done"
\* at the end, or the exception that left main().
\* gesture is current_gesture_num, files the record files in motion_data/,
\* a file name being <<gesture, attempt, timestamp>>, and disk the record
\* file written last; kept (not a variable of the program) holds the
\* attempts that reached the save with at least MinFrames frames and were
\* not discarded by a retry.
BatchStart ==
    [kind                  |-> "batch",
     pc                    |-> "attempt",
     gesture               |-> 1,
     attempt               |-> 1,
     frame_count           |-> 0,
     filename              |-> None,
     completed_recordings  |-> <<>>,
     files                 |-> {},
     kept                  |-> {},
     manifest              |-> None]

\* The name of the k-th gesture of GESTURE_CATEGORIES, names being
\* modelled as g1, g2, ...
GestureName(k) == "g" \o ToString(k)

\* record_single_gesture up to the while loop: clear_history and the
\* counters.
start_attempt ==
    /\ app.kind = "batch"
    /\ app.pc = "attempt"
    /\ clear_history
    /\ app' = [app EXCEPT !.pc = "loop", !.frame_count = 0, !.filename = None]

\* main() after record_single_gesture returned filename (None, or
\* Some(name)): the append, and the sleep before the next attempt or the
\* end of the gesture.
Returned(a, filename) ==
    LET b == IF filename = None THEN a
             ELSE [a EXCEPT !.completed_recordings = Append(@, Val(filename))]
    IN  IF a.attempt < ATTEMPTS_PER_GESTURE
        THEN [b EXCEPT !.pc = "sleep"]
        ELSE IF a.gesture < NumGestures
        THEN [b EXCEPT !.pc = "prompt"]
        ELSE [b EXCEPT !.pc = "manifest"]

\* time.sleep(2) is over: the for loop moves on to the next attempt.
next_attempt ==
    /\ app.kind = "batch"
    /\ app.pc = "sleep"
    /\ UNCHANGED <<session, last, cleared, disk>>
    /\ app' = [app EXCEPT !.pc = "attempt", !.attempt = @ + 1]

\* A pass of the while loop on what the detector returns for the frame,
\* q telling whether cv2.waitKey returns 'q'.
loop_pass(lmList, fingers, q) ==
    /\ app.kind = "batch"
    /\ app.pc = "loop"
    /\ LET counted == IF Len(lmList) # 0
                      THEN [app EXCEPT !.frame_count = @ + 1] ELSE app
       IN  /\ IF Len(lmList) # 0
              THEN create_descriptor(lmList, fingers, None, 0, 0)
              ELSE UNCHANGED <<session, last, cleared, disk>>
           /\ app' = IF q THEN Returned(counted, None) ELSE counted

\* The while condition fails (the recording time is over) and the
\* recording is too short.
too_short ==
    /\ app.kind = "batch"
    /\ app.pc = "loop"
    /\ app.frame_count < MinFrames
    /\ UNCHANGED <<session, last, cleared, disk>>
    /\ app' = Returned(app, None)

\* The while condition fails and the recording is saved; timestamp is
\* int(time.time()).
save_recording(timestamp, can_open) ==
    /\ app.kind = "batch"
    /\ app.pc = "loop"
    /\ app.frame_count >= MinFrames
    /\ LET filename == <<app.gesture, app.attempt, timestamp>>
       IN  /\ save_sequence(GestureName(app.gesture),
                            Some([attempt     |-> [num |-> app.attempt],
                                  description |-> [str |-> "d"]]),
                            timestamp, can_open)
           /\ app' = [app EXCEPT
                        !.pc = "quality",
                        !.filename = Some(filename),
                        !.kept = @ \cup {<<app.gesture, app.attempt>>},
                        !.files = IF motion_history # <<>> /\ can_open
                                  THEN @ \cup {filename} ELSE @]

\* Whether the quality check finds an issue in the statistics.
QualityIssues(stats) ==
    \/ stats.average_fps[1] < LowFps * stats.average_fps[2]
    \/ stats.total_frames < FewFrames

\* The quality check: get_statistics and the subscripts of its result
\* (which raise KeyError on the no-data result).  With a warning the
\* program waits at "Retry this attempt?", without one it returns the file
\* name.
quality_check ==
    /\ app.kind = "batch"
    /\ app.pc = "quality"
    /\ get_statistics
    /\ LET stats == Statistics(motion_history)
       IN  app' = IF "error" \in DOMAIN stats
                  THEN [app EXCEPT !.pc = "KeyError"]
                  ELSE IF QualityIssues(stats)
                  THEN [app EXCEPT !.pc = "retry"]
                  ELSE Returned(app, app.filename)

\* The answer to "Retry this attempt?": 'y' removes the record file
\* (os.remove raises FileNotFoundError when it was not written) and
\* records the attempt again, any other answer returns the file name.
retry_answer(retry) ==
    /\ app.kind = "batch"
    /\ app.pc = "retry"
    /\ UNCHANGED <<session, last, cleared>>
    /\ IF retry = "y"
       THEN IF Val(app.filename) \in app.files
            THEN /\ disk' = None
                 /\ app' = [app EXCEPT
                              !.pc = "attempt",
                              !.files = @ \ {Val(app.filename)},
                              !.kept = @ \ {<<app.gesture, app.attempt>>}]
            ELSE /\ UNCHANGED disk
                 /\ app' = [app EXCEPT !.pc = "FileNotFoundError"]
       ELSE /\ UNCHANGED disk
            /\ app' = Returned(app, app.filename)

\* The answer to "Continue to next gesture?": 'n' raises
\* KeyboardInterrupt, which main() catches; 'p' waits at "Paused".
prompt(choice) ==
    /\ app.kind = "batch"
    /\ app.pc = "prompt"
    /\ UNCHANGED <<session, last, cleared, disk>>
    /\ app' = IF choice = "n" THEN [app EXCEPT !.pc = "manifest"]
              ELSE IF choice = "p" THEN [app EXCEPT !.pc = "paused"]
              ELSE [app EXCEPT !.pc = "attempt", !.gesture = @ + 1,
                               !.attempt = 1]

\* ENTER at "Paused. Press ENTER to continue...": the next gesture.
paused ==
    /\ app.kind = "batch"
    /\ app.pc = "paused"
    /\ UNCHANGED <<session, last, cleared, disk>>
    /\ app' = [app EXCEPT !.pc = "attempt", !.gesture = @ + 1, !.attempt = 1]

\* Ctrl-C while main() is in its try statement (at a prompt, in a sleep or
\* in the loop): KeyboardInterrupt leaves record_single_gesture and is
\* caught by main(), which goes on to the manifest.
interrupt ==
    /\ app.kind = "batch"
    /\ app.pc \in {"attempt", "loop", "quality", "retry", "sleep", "prompt",
                  "paused"}
    /\ UNCHANGED <<session, last, cleared, disk>>
    /\ app' = [app EXCEPT !.pc = "manifest"]

\* The manifest written at the end of main().
write_manifest ==
    /\ app.kind = "batch"
    /\ app.pc = "manifest"
    /\ UNCHANGED <<session, last, cleared, disk>>
    /\ app' = [app EXCEPT
                 !.pc = "done",
                 !.manifest =
                     Some([total_recordings |-> Len(app.completed_recordings),
                           recordings       |-> app.completed_recordings])]

(* ------------------------------ inputs -------------------------------- *)

Times == 0 .. MaxTime

\* A landmark list of n entries: thumb tip (4) and index tip (8) as given,
\* every other landmark at the point other.
MkLm(n, thumb, index, other) ==
    [i \in 1 .. n |->
        IF i - 1 = 4 THEN <<4, thumb[1], thumb[2]>>
        ELSE IF i - 1 = 8 THEN <<8, index[1], index[2]>>
        ELSE <<i - 1, other[1], other[2]>>]

Thumb == <<100, 100>>

\* The binary vectors of length n.
RECURSIVE BinVecs(_)
BinVecs(n) ==
    IF n = 0 THEN {<<>>}
    ELSE {Append(v, b) : v \in BinVecs(n - 1), b \in {0, 1}}

\* Index-tip positions at distance 39, 40 (on an axis), 40 (the 24-32-40
\* triangle) and just under 40 (27*27 + 29*29 = 1570) from Thumb.
Idx39 == <<139, 100>>
Idx40 == <<140, 100>>
Idx40d == <<124, 132>>
IdxNear == <<127, 129>>

\* Frames of the session specification, as <<lmList, fingers>>: four valid
\* frames (thumb+index with the index tip on either side of the pinch
\* threshold and the other landmarks at two places, and a pointing hand)
\* and four frames the validation rejects.
SessionFrames ==
    LET O1 == <<50, 60>>
        O2 == <<130, 100>>
    IN  { <<MkLm(21, Thumb, Idx39, O1), <<1, 1, 0, 0, 0>>>>,
          <<MkLm(21, Thumb, Idx39, O2), <<1, 1, 0, 0, 0>>>>,
          <<MkLm(21, Thumb, Idx40, O1), <<1, 1, 0, 0, 0>>>>,
          <<MkLm(21, Thumb, Idx39, O1), <<0, 1, 0, 0, 0>>>>,
          <<MkLm(20, Thumb, Idx39, O1), <<0, 1, 0, 0, 0>>>>,
          <<MkLm(0, Thumb, Idx39, O1), <<>>>>,
          <<MkLm(21, Thumb, Idx39, O1), <<0, 1, 0, 0>>>>,
          <<MkLm(21, Thumb, Idx39, O1), <<0, 1, 0, 0, 0, 0>>>> }

\* Frame-size hints of the session specification: none, and one with a
\* zero height.
SessionShapes == {None, <<0, 640>>}

Next ==
    \/ \E fr \in SessionFrames, fs \in SessionShapes, t1 \in Times, t2 \in Times :
          /\ Len(motion_history) < MaxHist
          /\ create_descriptor(fr[1], fr[2], fs, t1, t2)
          /\ UNCHANGED app
    \/ clear_history /\ UNCHANGED app

Spec == Init /\ [][Next]_vars

\* Frames of the classification specification: each of the 32 finger
\* vectors, and thumb+index and pointing hands with the index tip around
\* the pinch threshold.
ClassifyFrames ==
    LET O1 == <<50, 60>>
    IN  {<<MkLm(21, Thumb, Idx39, O1), f>> : f \in BinVecs(5)}
        \cup {<<MkLm(22, Thumb, i, O1), f>> :
                 i \in {Idx40, Idx40d, IdxNear},
                 f \in {<<1, 1, 0, 0, 0>>, <<0, 1, 0, 0, 0>>}}

NextClassify ==
    \/ \E fr \in ClassifyFrames :
          /\ Len(motion_history) < MaxHistC
          /\ create_descriptor(fr[1], fr[2], None, 0, 0)
          /\ UNCHANGED app
    \/ clear_history /\ UNCHANGED app

SpecClassify == Init /\ [][NextClassify]_vars

\* Frames of the query specification: a pointing hand, a thumb+index hand
\* with the index tip one pixel further, and a frame the validation rejects.
QueryFrames ==
    LET O1 == <<50, 60>>
    IN  { <<MkLm(21, Thumb, Idx39, O1), <<0, 1, 0, 0, 0>>>>,
          <<MkLm(21, Thumb, Idx40, O1), <<1, 1, 0, 0, 0>>>>,
          <<MkLm(20, Thumb, Idx39, O1), <<0, 1, 0, 0, 0>>>> }

\* Window lengths of the queries, in clock ticks.
Windows == {0, 1}

\* In the query specification both clock readings of a create_descriptor
\* call give the same value.
NextQuery ==
    \/ \E fr \in QueryFrames, fs \in SessionShapes, t \in Times :
          /\ Len(motion_history) < MaxHistQ
          /\ create_descriptor(fr[1], fr[2], fs, t, t)
          /\ UNCHANGED app
    \/ clear_history /\ UNCHANGED app
    \/ \E w \in Windows, now \in Times : get_motion_sequence(w, now) /\ UNCHANGED app
    \/ \E w \in Windows, now \in Times : get_primitive_sequence(w, now) /\ UNCHANGED app
    \/ get_statistics /\ UNCHANGED app

SpecQuery == Init /\ [][NextQuery]_vars

\* Frames of the statistics specification: a pointing hand with the index
\* tip at two places one pixel apart.
StatFrames ==
    LET O1 == <<50, 60>>
    IN  { <<MkLm(21, Thumb, Idx39, O1), <<0, 1, 0, 0, 0>>>>,
          <<MkLm(21, Thumb, Idx40, O1), <<0, 1, 0, 0, 0>>>> }

\* Clock readings of the statistics specification, 5 ticks apart.
StatTimes == {0, 5, 10, 15}

\* The statistics specification runs on a clock that never steps back, and
\* both readings of a create_descriptor call give the same value.
NextStats ==
    \/ \E fr \in StatFrames, t \in StatTimes :
          /\ Len(motion_history) < MaxHistV
          /\ motion_history # <<>> =>
                 t >= motion_history[Len(motion_history)].timestamp
          /\ create_descriptor(fr[1], fr[2], None, t, t)
          /\ UNCHANGED app
    \/ get_statistics /\ UNCHANGED app

SpecStats == Init /\ [][NextStats]_vars

\* Frames of the save and load specification: a pointing hand and a
\* thumb+index hand.
SaveFrames ==
    LET O1 == <<50, 60>>
    IN  { <<MkLm(21, Thumb, Idx39, O1), <<0, 1, 0, 0, 0>>>>,
          <<MkLm(21, Thumb, Idx40, O1), <<1, 1, 0, 0, 0>>>> }

\* Custom metadata passed to save_sequence: none, a signer name, and a
\* value json cannot encode.
SaveMetadata ==
    {None, Some([signer |-> [str |-> "A"]]), Some([tags |-> [pyset |-> {"a"}]])}

\* The save and load specification: a session that is built, saved to one
\* file and loaded back, without clear_history.
NextSave ==
    \/ \E fr \in SaveFrames, t \in Times :
          /\ Len(motion_history) < MaxHistS
          /\ create_descriptor(fr[1], fr[2], None, t, t)
          /\ UNCHANGED app
    \/ \E md \in SaveMetadata, now \in Times, can_open \in BOOLEAN :
          /\ save_sequence("g", md, now, can_open)
          /\ UNCHANGED app
    \/ MotionAnalyzer /\ UNCHANGED app

SpecSave == Init /\ [][NextSave]_vars

\* A metadata object with every entry save_sequence writes.
FullMetadata ==
    [gesture_name     |-> "g",
     recorded_at      |-> "0",
     duration_seconds |-> 0,
     total_frames     |-> 0,
     average_fps      |-> Div(0, 1),
     primitives_used  |-> <<>>,
     custom           |-> <<>>]

\* The entries of record r other than k.
Without(r, k) == [j \in DOMAIN r \ {k} |-> r[j]]

\* Files another program left where the analyzer looks: no file, a file
\* cut short, and complete JSON objects: empty, without metadata, without
\* frames, with a metadata lacking gesture_name or total_frames, and with
\* frames that hold an object that is no descriptor.
LoadFiles ==
    { None,
      Some(Truncated),
      Some([kind |-> "json", value |-> <<>>]),
      Some([kind |-> "json", value |-> [frames |-> <<>>]]),
      Some([kind |-> "json", value |-> [metadata |-> FullMetadata]]),
      Some([kind |-> "json",
            value |-> [metadata |-> Without(FullMetadata, "gesture_name"),
                       frames |-> <<>>]]),
      Some([kind |-> "json",
            value |-> [metadata |-> Without(FullMetadata, "total_frames"),
                       frames |-> <<>>]]),
      Some([kind |-> "json",
            value |-> [metadata |-> [FullMetadata EXCEPT !.total_frames = 1],
                       frames |-> << [note |-> "x"] >>]]) }

\* The load specification starts with any of these files on disk.
InitLoad ==
    /\ motion_history = <<>>
    /\ primitives_seen = {}
    /\ recording_start_time = None
    /\ last = [op |-> "__init__", lmLen |-> 0, fLen |-> 0, result |-> "None"]
    /\ cleared = FALSE
    /\ disk \in LoadFiles
    /\ app = NoApp

\* The load specification: a session that is built and saved over the file
\* found on disk, and an analyzer constructed on whatever the file holds.
NextLoad ==
    \/ \E fr \in SaveFrames, t \in Times :
          /\ Len(motion_history) < MaxHistL
          /\ create_descriptor(fr[1], fr[2], None, t, t)
          /\ UNCHANGED app
    \/ \E can_open \in BOOLEAN : save_sequence("g", None, 0, can_open) /\ UNCHANGED app
    \/ MotionAnalyzer /\ UNCHANGED app

SpecLoad == InitLoad /\ [][NextLoad]_vars

\* Frames of the normalization specification: a pointing hand with every
\* landmark inside a frame 120 high and 160 wide, one with landmarks on its
\* right and bottom edges, one with landmarks outside it, and a frame the
\* validation rejects.
NormFrames ==
    { <<MkLm(21, Thumb, Idx39, <<50, 60>>), <<0, 1, 0, 0, 0>>>>,
      <<MkLm(21, Thumb, Idx39, <<160, 120>>), <<0, 1, 0, 0, 0>>>>,
      <<MkLm(21, Thumb, Idx39, <<200, 130>>), <<0, 1, 0, 0, 0>>>>,
      <<MkLm(20, Thumb, Idx39, <<50, 60>>), <<0, 1, 0, 0, 0>>>> }

\* Frame-size hints of the normalization specification, as (height, width):
\* none, a frame of 120 by 160, and one with a zero height.
NormShapes == {None, <<120, 160>>, <<0, 160>>}

\* The normalization specification: sessions built with and without a
\* frame-size hint, on a clock that stands still.
NextNorm ==
    \/ \E fr \in NormFrames, fs \in NormShapes :
          /\ Len(motion_history) < MaxHistN
          /\ create_descriptor(fr[1], fr[2], fs, 0, 0)
          /\ UNCHANGED app
    \/ clear_history /\ UNCHANGED app

SpecNorm == Init /\ [][NextNorm]_vars

\* The operations specification: every operation of a session, on the
\* frames of the query specification, with queries for the last tick at
\* clock reading 1, saves that complete and saves that fail.
NextOps ==
    \/ \E fr \in QueryFrames, t \in Times :
          /\ Len(motion_history) < MaxHistO
          /\ create_descriptor(fr[1], fr[2], None, t, t)
          /\ UNCHANGED app
    \/ clear_history /\ UNCHANGED app
    \/ get_motion_sequence(1, 1) /\ UNCHANGED app
    \/ get_primitive_sequence(1, 1) /\ UNCHANGED app
    \/ get_statistics /\ UNCHANGED app
    \/ \E md \in {None, Some([tags |-> [pyset |-> {"a"}]])},
          can_open \in BOOLEAN :
          /\ save_sequence("g", md, 0, can_open)
          /\ UNCHANGED app

SpecOps == Init /\ [][NextOps]_vars

\* What the detector returns in the application specification, as
\* <<lmList, fingers>>: a pointing hand, a hand with 20 landmarks, a hand
\* whose finger list is empty, and no hand.
AppFrames ==
    { <<MkLm(21, Thumb, Idx39, <<50, 60>>), <<0, 1, 0, 0, 0>>>>,
      <<MkLm(20, Thumb, Idx39, <<50, 60>>), <<0, 1, 0, 0, 0>>>>,
      <<MkLm(21, Thumb, Idx39, <<50, 60>>), <<>>>>,
      <<<<>>, <<>>>> }

\* Gesture names typed at the prompt.
AppNames == {"", "g"}

\* Either program, started on a new MotionDescriptor.
InitApp ==
    /\ motion_history = <<>>
    /\ primitives_seen = {}
    /\ recording_start_time = None
    /\ last = [op |-> "__init__", lmLen |-> 0, fLen |-> 0, result |-> "None"]
    /\ cleared = FALSE
    /\ disk = None
    /\ app \in {AppStart("main"), AppStart("enhanced")}

\* The application specification: the two main loops on a clock that
\* reads the number of the pass.
NextApp ==
    \/ capture_failed
    \/ \E fr \in AppFrames : capture(fr[1], fr[2])
    \/ \E name \in AppNames : key_r(name)
    \/ \E can_open \in BOOLEAN : key_s(can_open)
    \/ show_statistics
    \/ key_c
    \/ \E key \in {"none", "r", "s", "c", "q"} : key_other(key)
    \/ capture_failed_enhanced
    \/ \E fr \in AppFrames : capture_enhanced(fr[1], fr[2])
    \/ \E name \in AppNames : key_r_enhanced(name)
    \/ \E can_open \in BOOLEAN : key_s_enhanced(can_open)
    \/ key_c_enhanced
    \/ \E key \in {"none", "r", "s", "c", "q"} : key_other_enhanced(key)

SpecApp == InitApp /\ [][NextApp]_vars

\* What the detector returns in the batch specification: a pointing hand,
\* and no hand.
BatchFrames ==
    { <<MkLm(21, Thumb, Idx39, <<50, 60>>), <<0, 1, 0, 0, 0>>>>,
      <<<<>>, <<>>>> }

\* The batch recorder started on a new MotionDescriptor.
InitBatch ==
    /\ motion_history = <<>>
    /\ primitives_seen = {}
    /\ recording_start_time = None
    /\ last = [op |-> "__init__", lmLen |-> 0, fLen |-> 0, result |-> "None"]
    /\ cleared = FALSE
    /\ disk = None
    /\ app = BatchStart

\* The batch specification: a batch session on a clock that stands
\* still.
NextBatch ==
    \/ start_attempt
    \/ \E fr \in BatchFrames, q \in BOOLEAN :
          /\ Len(fr[1]) # 0 => app.frame_count < MaxFrames
          /\ loop_pass(fr[1], fr[2], q)
    \/ too_short
    \/ \E can_open \in BOOLEAN : save_recording(0, can_open)
    \/ quality_check
    \/ \E retry \in {"y", "n"} : retry_answer(retry)
    \/ \E choice \in {"y", "n", "p"} :
          /\ choice # "n" => app.gesture < MaxGestures
          /\ prompt(choice)
    \/ next_attempt
    \/ paused
    \/ interrupt
    \/ write_manifest

SpecBatch == InitBatch /\ [][NextBatch]_vars

(* ------------------------------ claims -------------------------------- *)

\* The descriptors of the history, as a set.
Descriptors == {motion_history[i] : i \in 1 .. Len(motion_history)}

\* The squared thumb-tip to index-tip distance of a descriptor, from its
\* recorded landmarks.
TipDistSq(d) ==
    LET dx == d.landmarks.index_tip.x - d.landmarks.thumb_tip.x
        dy == d.landmarks.index_tip.y - d.landmarks.thumb_tip.y
    IN  dx * dx + dy * dy

\* The documented 5-character handshape code.
Bit(b) == IF b = 1 THEN "1" ELSE "0"
Code5(f) == Bit(f[1]) \o Bit(f[2]) \o Bit(f[3]) \o Bit(f[4]) \o Bit(f[5])

\* The documented ordered rule table (rule 6 yields PINCH_READY instead of
\* OK_SIGN when the pinch distance is not under 40).
RuleTable ==
    << [kind |-> "eq",   pat |-> <<0, 1, 0, 0, 0>>, label |-> "POINT"],
       [kind |-> "eq",   pat |-> <<0, 1, 1, 0, 0>>, label |-> "PEACE_V"],
       [kind |-> "eq",   pat |-> <<1, 1, 1, 1, 1>>, label |-> "OPEN_HAND"],
       [kind |-> "sum0", pat |-> <<>>,              label |-> "FIST"],
       [kind |-> "eq",   pat |-> <<1, 0, 0, 0, 0>>, label |-> "THUMBS_UP"],
       [kind |-> "eq",   pat |-> <<1, 1, 0, 0, 0>>, label |-> "OK_SIGN"],
       [kind |-> "eq",   pat |-> <<0, 1, 1, 1, 0>>, label |-> "THREE"],
       [kind |-> "eq",   pat |-> <<0, 1, 1, 1, 1>>, label |-> "FOUR"],
       [kind |-> "eq",   pat |-> <<0, 0, 0, 0, 1>>, label |-> "PINKY"] >>

RuleMatches(r, f) == IF r.kind = "sum0" THEN SumSeq(f) = 0 ELSE f = r.pat

\* The index of the first rule matching f, or 0.
FirstMatch(f) ==
    LET M == {k \in 1 .. Len(RuleTable) : RuleMatches(RuleTable[k], f)}
    IN  IF M = {} THEN 0 ELSE CHOOSE k \in M : \A j \in M : k <= j

TableLabel(f, distSq) ==
    LET k == FirstMatch(f)
    IN  IF k = 0 THEN "UNKNOWN_" \o Code5(f)
        ELSE IF RuleTable[k].label = "OK_SIGN"
             THEN (IF distSq < 1600 THEN "OK_SIGN" ELSE "PINCH_READY")
             ELSE RuleTable[k].label

NamedLabels ==
    {"POINT", "PEACE_V", "OPEN_HAND", "FIST", "THUMBS_UP", "OK_SIGN",
     "PINCH_READY", "THREE", "FOUR", "PINKY"}

\* C1: a create_descriptor call with fewer than 21 landmark points or with
\* a finger vector whose length is not 5 returns None and leaves the
\* history, the distinct-primitive set and the session start time as they
\* were (so the next valid frame gets the frame index it would have got).
C1_InvalidFrameLeavesSession ==
    [][ (/\ last'.op = "create_descriptor"
         /\ (last'.lmLen < 21 \/ last'.fLen # 5))
        => (last'.result = "None" /\ UNCHANGED session) ]_vars

\* C1 witness: a frame with 21 landmarks and 4 finger flags was rejected in
\* a session that already holds a descriptor.
C1_Witness ==
    /\ last.op = "create_descriptor"
    /\ last.lmLen = 21
    /\ last.fLen = 4
    /\ last.result = "None"
    /\ Len(motion_history) >= 1
    /\ recording_start_time # None

\* C2: every descriptor's primitive is the label of the first matching rule
\* of the documented ordered table, UNKNOWN_<code> when no rule matches;
\* the all-zero vector is FIST.
C2_FirstMatchingRule ==
    \A d \in Descriptors :
        /\ d.primitive = TableLabel(d.fingers_extended, TipDistSq(d))
        /\ (d.fingers_extended = <<0, 0, 0, 0, 0>> => d.primitive = "FIST")

\* C2 witness: the history holds the all-zero vector labelled FIST and a
\* vector with one finger up labelled by a rule listed after the fist rule.
C2_Witness ==
    /\ \E d \in Descriptors :
          d.fingers_extended = <<0, 0, 0, 0, 0>> /\ d.primitive = "FIST"
    /\ \E d \in Descriptors :
          d.fingers_extended = <<0, 0, 0, 0, 1>> /\ d.primitive = "PINKY"

\* Landmark lists that agree with descriptor d on the thumb tip and the
\* index tip and put every other landmark at any of four places.
SameTips(d) ==
    {MkLm(21, <<d.landmarks.thumb_tip.x, d.landmarks.thumb_tip.y>>,
              <<d.landmarks.index_tip.x, d.landmarks.index_tip.y>>, o) :
        o \in {<<0, 0>>, <<50, 60>>, <<130, 100>>, <<140, 100>>}}

\* C3: classification depends on the finger vector, the thumb tip and the
\* index tip alone: two descriptors of a history that agree on these carry
\* the same label; classifying a stored descriptor's inputs again, in the
\* current session state and with any other landmarks, gives the label
\* stored; and a pointing hand is POINT.
C3_Stateless ==
    /\ \A d, e \in Descriptors :
          (/\ d.fingers_extended = e.fingers_extended
           /\ d.landmarks.thumb_tip = e.landmarks.thumb_tip
           /\ d.landmarks.index_tip = e.landmarks.index_tip)
          => d.primitive = e.primitive
    /\ \A d \in Descriptors : \A lm \in SameTips(d) :
          _classify_primitive(d.fingers_extended, lm) = d.primitive
    /\ \A d \in Descriptors :
          d.fingers_extended = <<0, 1, 0, 0, 0>> => d.primitive = "POINT"

\* C3 witness: a thumb+index hand with the index tip at distance 39 was
\* classified, later than the session start, after one at distance 40.
C3_Witness ==
    /\ Len(motion_history) = 2
    /\ motion_history[1].primitive = "PINCH_READY"
    /\ motion_history[2].primitive = "OK_SIGN"
    /\ motion_history[2].relative_time # 0

\* C4: a thumb+index hand is OK_SIGN exactly when the squared tip distance
\* is under 1600 (distance under 40) and PINCH_READY otherwise.
C4_PinchBoundary ==
    \A d \in Descriptors :
        d.fingers_extended = <<1, 1, 0, 0, 0>> =>
            /\ (d.primitive = "OK_SIGN") <=> (TipDistSq(d) < 1600)
            /\ (d.primitive = "PINCH_READY") <=> (TipDistSq(d) >= 1600)

\* C4 witness: one history holds thumb+index hands at distance 39 (OK_SIGN)
\* and at distance exactly 40 off the axes (PINCH_READY).
C4_Witness ==
    /\ \E d \in Descriptors :
          /\ d.fingers_extended = <<1, 1, 0, 0, 0>>
          /\ TipDistSq(d) = 39 * 39
          /\ d.primitive = "OK_SIGN"
    /\ \E d \in Descriptors :
          /\ d.fingers_extended = <<1, 1, 0, 0, 0>>
          /\ TipDistSq(d) = 1600
          /\ d.landmarks.index_tip.y # d.landmarks.thumb_tip.y
          /\ d.primitive = "PINCH_READY"

\* A finger vector none of the nine named rules matches.
Unmatched(f) == FirstMatch(f) = 0

\* C5: an unmatched finger vector is labelled UNKNOWN_ followed by its
\* 5-character code; different unmatched vectors get different labels; an
\* UNKNOWN label is never a named label.
C5_UnknownLabels ==
    /\ \A d \in Descriptors :
          Unmatched(d.fingers_extended) =>
              /\ d.primitive = "UNKNOWN_" \o Code5(d.fingers_extended)
              /\ d.primitive \notin NamedLabels
    /\ \A d, e \in Descriptors :
          (/\ Unmatched(d.fingers_extended)
           /\ Unmatched(e.fingers_extended)
           /\ d.fingers_extended # e.fingers_extended)
          => d.primitive # e.primitive

\* C5 witness: one history holds two unmatched vectors that differ in the
\* last finger only.
C5_Witness ==
    /\ Len(motion_history) = 2
    /\ motion_history[1].fingers_extended = <<0, 0, 1, 0, 0>>
    /\ motion_history[2].fingers_extended = <<0, 0, 1, 0, 1>>
    /\ motion_history[1].primitive = "UNKNOWN_00100"
    /\ motion_history[2].primitive = "UNKNOWN_00101"

\* C6: the first descriptor of a session has no velocity; a later
\* descriptor whose capture time differs from its predecessor's has one,
\* of magnitude 0 when the index tip did not move.
C6_VelocityPresence ==
    /\ Len(motion_history) >= 1 => motion_history[1].velocity = None
    /\ \A i \in 2 .. Len(motion_history) :
          LET d == motion_history[i]
              p == motion_history[i - 1]
          IN  d.timestamp # p.timestamp =>
                 /\ d.velocity # None
                 /\ d.landmarks.index_tip = p.landmarks.index_tip
                       => Val(d.velocity).magnitude_sq[1] = 0

\* C7: a descriptor whose capture time equals its predecessor's has no
\* velocity.
C7_NoVelocityWithoutElapsedTime ==
    \A i \in 2 .. Len(motion_history) :
        motion_history[i].timestamp = motion_history[i - 1].timestamp
            => motion_history[i].velocity = None

\* C8: the descriptor at position i has frame index i (counting from 0) and
\* capture times never decrease along the history.
C8_OrderedHistory ==
    /\ \A i \in 1 .. Len(motion_history) : motion_history[i].frame_num = i - 1
    /\ \A i \in 2 .. Len(motion_history) :
          motion_history[i - 1].timestamp <= motion_history[i].timestamp

\* C9: every descriptor's session-relative time is its capture time minus
\* the capture time of the first descriptor of the history (0 for the
\* first).
C9_RelativeTime ==
    \A i \in 1 .. Len(motion_history) :
        motion_history[i].relative_time =
            motion_history[i].timestamp - motion_history[1].timestamp

\* C10: clear_history leaves the history and the distinct-primitive set
\* empty, and the first descriptor built after it has frame index 0 and
\* session-relative time 0.
C10_ClearResets ==
    /\ last.op = "clear_history" =>
          (motion_history = <<>> /\ primitives_seen = {})
    /\ (cleared /\ Len(motion_history) >= 1) =>
          /\ motion_history[1].frame_num = 0
          /\ motion_history[1].relative_time = 0

\* C11: every step leaves the history as it was, or is a create_descriptor
\* that returned a descriptor and appended exactly one descriptor at the
\* end, or is a clear_history that emptied it; stored descriptors are never
\* modified, reordered or removed one by one.
C11_AppendOrClear ==
    [][ \/ motion_history' = motion_history
        \/ /\ last'.op = "create_descriptor"
           /\ last'.result = "descriptor"
           /\ Len(motion_history') = Len(motion_history) + 1
           /\ SubSeq(motion_history', 1, Len(motion_history)) = motion_history
        \/ /\ last'.op = "clear_history"
           /\ motion_history' = <<>> ]_vars

\* C11 witness: the history was cleared and a descriptor was appended
\* after that.
C11_Witness ==
    /\ cleared
    /\ Len(motion_history) = 1
    /\ last.op = "create_descriptor"
    /\ last.result = "descriptor"

\* C12: the distinct-primitive set is the set of the primitive labels of
\* the descriptors in the history.
C12_PrimitivesSeen ==
    primitives_seen = {d.primitive : d \in Descriptors}

\* C12 witness: after a clear the history holds two descriptors with
\* different labels.
C12_Witness ==
    /\ cleared
    /\ Len(motion_history) = 2
    /\ motion_history[1].primitive # motion_history[2].primitive
    /\ Cardinality(primitives_seen) = 2

\* The k-th smallest element of a finite set of integers.
KthIndex(S, k) == CHOOSE i \in S : Cardinality({j \in S : j < i}) = k - 1

\* The descriptors of the history at the positions in S, in history order.
Picked(S) ==
    [k \in 1 .. Cardinality(S) |-> motion_history[KthIndex(S, k)]]

\* Positions of the descriptors captured at most w ticks before now.
AtMostBefore(w, now) ==
    {i \in 1 .. Len(motion_history) : now - motion_history[i].timestamp <= w}

\* Positions of the descriptors captured after now - w.
LaterThanCutoff(w, now) ==
    {i \in 1 .. Len(motion_history) : motion_history[i].timestamp > now - w}

\* C13 as claimed: get_motion_sequence(w) returns, in history order, the
\* descriptors captured at most w seconds before the clock reading of the
\* query, and get_primitive_sequence(w) their labels.
C13_WindowAtMost ==
    /\ last.op = "get_motion_sequence" =>
          last.result = Picked(AtMostBefore(last.window_seconds, last.now))
    /\ last.op = "get_primitive_sequence" =>
          LET seq == Picked(AtMostBefore(last.window_seconds, last.now))
          IN  last.result = [k \in 1 .. Len(seq) |-> seq[k].primitive]

\* C13 as amended: get_motion_sequence(w) returns, in history order, the
\* descriptors whose capture time is greater than the clock reading of the
\* query minus w (a descriptor exactly w seconds old is left out), and
\* get_primitive_sequence(w) returns their labels in the same order; on an
\* empty history both return the empty sequence.
C13_WindowStrict ==
    /\ last.op = "get_motion_sequence" =>
          last.result = Picked(LaterThanCutoff(last.window_seconds, last.now))
    /\ last.op = "get_primitive_sequence" =>
          LET seq == Picked(LaterThanCutoff(last.window_seconds, last.now))
          IN  last.result = [k \in 1 .. Len(seq) |-> seq[k].primitive]
    /\ (last.op \in {"get_motion_sequence", "get_primitive_sequence"}
          /\ motion_history = <<>>) => last.result = <<>>

\* C13 witness: a window query left out the first descriptor, captured
\* exactly w ticks before the query, and returned the second.
C13_Witness ==
    /\ last.op = "get_motion_sequence"
    /\ last.window_seconds > 0
    /\ Len(motion_history) = 2
    /\ motion_history[1].timestamp = last.now - last.window_seconds
    /\ last.result = <<motion_history[2]>>

\* C14: get_statistics on an empty history, of a fresh session or after
\* clear_history, returns the no-data result {'error': 'No motion history'}
\* and raises nothing.
C14_EmptyStatistics ==
    (last.op = "get_statistics" /\ motion_history = <<>>) =>
        last.result = [error |-> "No motion history"]

\* C14 witness: get_statistics was called right after a clear_history.
C14_Witness ==
    /\ cleared
    /\ motion_history = <<>>
    /\ recording_start_time = None
    /\ last.op = "get_statistics"
    /\ last.result = [error |-> "No motion history"]

\* C15: for a history that is not empty, get_statistics reports
\* total_frames = the number of descriptors, duration_seconds = the last
\* capture time minus the first (0 with fewer than 2 frames), and
\* average_fps = total_frames / duration_seconds when the duration is not
\* 0 and 0 when it is.
C15_DurationAndFps ==
    (last.op = "get_statistics" /\ motion_history # <<>>) =>
        LET n == Len(motion_history)
            r == last.result
        IN  /\ r.total_frames = n
            /\ r.duration_seconds =
                   motion_history[n].timestamp - motion_history[1].timestamp
            /\ (n < 2 => r.duration_seconds = 0)
            /\ r.average_fps = IF r.duration_seconds # 0
                               THEN Div(n, r.duration_seconds)
                               ELSE Div(0, 1)

RECURSIVE SumOver(_, _)
\* The sum of f[x] over the x in S.
SumOver(f, S) ==
    IF S = {} THEN 0
    ELSE LET x == CHOOSE y \in S : TRUE
         IN  f[x] + SumOver(f, S \ {x})

\* C16: for a history that is not empty, primitive_counts has exactly the
\* labels of the history as keys, each mapped to the number of descriptors
\* carrying it; the counts sum to total_frames; unique_primitives is the
\* number of keys and the size of the distinct-primitive set.
C16_PrimitiveCounts ==
    (last.op = "get_statistics" /\ motion_history # <<>>) =>
        LET r      == last.result
            labels == {d.primitive : d \in Descriptors}
            idx(p) == {i \in 1 .. Len(motion_history) : motion_history[i].primitive = p}
        IN  /\ DOMAIN r.primitive_counts = labels
            /\ \A p \in labels : r.primitive_counts[p] = Cardinality(idx(p))
            /\ SumOver(r.primitive_counts, labels) = r.total_frames
            /\ r.unique_primitives = Cardinality(DOMAIN r.primitive_counts)
            /\ r.unique_primitives = Cardinality(primitives_seen)

\* C16 witness: the statistics of a history holding two descriptors with
\* the same label after a clear.
C16_Witness ==
    /\ cleared
    /\ last.op = "get_statistics"
    /\ Len(motion_history) = 2
    /\ motion_history[1].primitive = motion_history[2].primitive
    /\ last.result.primitive_counts = [p \in {"POINT"} |-> 2]

\* Positions of the descriptors that have a velocity.
WithVelocity ==
    {i \in 1 .. Len(motion_history) : motion_history[i].velocity # None}

\* The magnitudes of the descriptors that have a velocity.
Magnitudes ==
    {Magnitude(Val(motion_history[i].velocity)) : i \in WithVelocity}

\* x <= y for floats.
FLeq(x, y) == ~FLess(y, x)

\* C17 as claimed: velocity_stats is absent exactly when no descriptor has
\* a velocity (so for every single-frame history); otherwise max and min
\* are magnitudes of descriptors that have a velocity and
\* min <= mean <= max.
C17_MeanBetweenMinAndMax ==
    (last.op = "get_statistics" /\ motion_history # <<>>) =>
        LET vs == last.result.velocity_stats
        IN  /\ (vs = None) <=> (WithVelocity = {})
            /\ Len(motion_history) = 1 => vs = None
            /\ vs # None =>
                   /\ Val(vs).max \in Magnitudes
                   /\ Val(vs).min \in Magnitudes
                   /\ FLeq(Val(vs).min, Val(vs).mean)
                   /\ FLeq(Val(vs).mean, Val(vs).max)

\* C17 as amended: velocity_stats is absent exactly when no descriptor has
\* a velocity (so for every single-frame history); otherwise max and min
\* are the largest and the smallest magnitude of the descriptors that have
\* a velocity, and mean is the float sum of those magnitudes alone, taken
\* in history order, divided by their number (rounding can put it outside
\* min..max).
C17_VelocityStats ==
    (last.op = "get_statistics" /\ motion_history # <<>>) =>
        LET vs   == last.result.velocity_stats
            seq  == Picked(WithVelocity)
            mags == [k \in 1 .. Len(seq) |-> Magnitude(Val(seq[k].velocity))]
        IN  /\ (vs = None) <=> (WithVelocity = {})
            /\ Len(motion_history) = 1 => vs = None
            /\ vs # None =>
                   /\ Val(vs).max \in Magnitudes
                   /\ Val(vs).min \in Magnitudes
                   /\ \A m \in Magnitudes :
                          FLeq(Val(vs).min, m) /\ FLeq(m, Val(vs).max)
                   /\ Val(vs).mean = FDivInt(FSum(mags, Len(mags)), Len(mags))

\* C17 witness: the statistics of four frames whose three velocities have
\* the same magnitude, with a mean above the maximum.
C17_Witness ==
    /\ last.op = "get_statistics"
    /\ Len(motion_history) = 4
    /\ Cardinality(WithVelocity) = 3
    /\ last.result.velocity_stats # None
    /\ Val(last.result.velocity_stats).min = Val(last.result.velocity_stats).max
    /\ FLess(Val(last.result.velocity_stats).max,
             Val(last.result.velocity_stats).mean)

\* C18: save_sequence on an empty history fails with an EmptyHistoryError
\* the caller observes, writes no record and leaves the session as it was.
C18_EmptyExportFails ==
    [][ (last'.op = "save_sequence" /\ motion_history = <<>>)
        => /\ last'.result = "EmptyHistoryError"
           /\ UNCHANGED <<session, disk>> ]_vars

\* The record a completed save left in the file.
Record == Val(disk).value

\* The frames of the record, as json.load reads them.
RecordFrames ==
    [i \in 1 .. Len(Record.frames) |-> PyFrame(Record.frames[i])]

\* C19: the metadata of an exported record agrees with the frames it
\* carries: duration_seconds, total_frames and average_fps are what
\* get_statistics returns for those frames, total_frames is the number of
\* frames, and primitives_used lists each label of the frames once and
\* nothing else.
C19_MetadataAgreesWithFrames ==
    (disk # None /\ Val(disk).kind = "json") =>
        LET md     == Record.metadata
            st     == Statistics(RecordFrames)
            labels == {RecordFrames[i].primitive : i \in 1 .. Len(RecordFrames)}
        IN  /\ Len(RecordFrames) >= 1
            /\ md.total_frames = Len(RecordFrames)
            /\ md.total_frames = st.total_frames
            /\ md.duration_seconds = st.duration_seconds
            /\ md.average_fps = st.average_fps
            /\ (Len(RecordFrames) = 1 =>
                   md.duration_seconds = 0 /\ md.average_fps = Div(0, 1))
            /\ {md.primitives_used[i] : i \in 1 .. Len(md.primitives_used)} = labels
            /\ Len(md.primitives_used) = Cardinality(labels)

\* C19 witness: a history of one frame was saved; the record has duration
\* 0 and average_fps 0.
C19_Witness ==
    /\ disk # None
    /\ Val(disk).kind = "json"
    /\ last.op = "save_sequence"
    /\ last.printed = "Saved"
    /\ Len(motion_history) = 1
    /\ Record.metadata.total_frames = 1
    /\ Record.metadata.duration_seconds = 0
    /\ Record.metadata.average_fps = Div(0, 1)
    /\ Record.metadata.primitives_used = <<motion_history[1].primitive>>

\* The number of frames of a sequence carrying label p.
LabelCount(frames, p) ==
    Cardinality({i \in 1 .. Len(frames) : frames[i].primitive = p})

\* C20: the record MotionAnalyzer loads has the total_frames, the
\* primitive counts and the per-frame primitive labels, in order, of the
\* history that was saved (the history grows only, so that history is the
\* first total_frames descriptors of the current one).
C20_RoundTrip ==
    (last.op = "MotionAnalyzer" /\ last.result = "analyzer") =>
        LET n     == last.data.metadata.total_frames
            saved == SubSeq(motion_history, 1, n)
        IN  /\ n >= 1
            /\ n <= Len(motion_history)
            /\ Len(last.frames) = n
            /\ \A i \in 1 .. n :
                   last.frames[i].primitive = motion_history[i].primitive
            /\ \A p \in NamedLabels :
                   LabelCount(last.frames, p) = LabelCount(saved, p)

\* C20 witness: a saved history of two descriptors with different labels
\* was loaded back.
C20_Witness ==
    /\ last.op = "MotionAnalyzer"
    /\ last.result = "analyzer"
    /\ Len(motion_history) = 2
    /\ Len(last.frames) = 2
    /\ last.frames[1].primitive # last.frames[2].primitive
    /\ last.frames[1].velocity = None
    /\ last.frames[2].velocity # None


\* The entries of a record's metadata and of a descriptor.
MetadataKeys ==
    {"gesture_name", "recorded_at", "duration_seconds", "total_frames",
     "average_fps", "primitives_used", "custom"}
DescriptorKeys ==
    {"timestamp", "relative_time", "frame_num", "hand", "fingers_extended",
     "finger_count", "handshape_code", "landmarks", "features", "primitive",
     "velocity"}

\* Whether a file holds a complete record: a metadata and a frames entry,
\* a metadata with every entry, and frames that are descriptors.
WellFormedFile(file) ==
    /\ file # None
    /\ Val(file).kind = "json"
    /\ {"metadata", "frames"} \subseteq DOMAIN Val(file).value
    /\ MetadataKeys \subseteq DOMAIN Val(file).value.metadata
    /\ \A i \in 1 .. Len(Val(file).value.frames) :
          DescriptorKeys \subseteq DOMAIN Val(file).value.frames[i]

\* C21: constructing the analyzer on a file that lacks metadata or frames,
\* or whose metadata or frames are not well-formed, fails with an error;
\* an analyzer is only ever built from a complete record.
C21_MalformedRejected ==
    (last.op = "MotionAnalyzer" /\ ~WellFormedFile(disk))
        => last.result \in {"ValueError", "KeyError"}


\* C22: a save_sequence whose write failed returns an error to its caller:
\* what it returns differs from what a save that wrote the record returns.
C22_WriteFailureSurfaced ==
    (last.op = "save_sequence" /\ last.printed = "Error saving motion data")
        => last.result # Saved("Saved").result


\* C23: no call appends a descriptor whose capture time is earlier than
\* that of the last stored descriptor: such a call fails with
\* OutOfOrderAppend and leaves the history as it was.
C23_OutOfOrderAppendFails ==
    [][ (/\ motion_history # <<>>
         /\ Len(motion_history') = Len(motion_history) + 1
         /\ motion_history'[Len(motion_history')].timestamp
                < motion_history[Len(motion_history)].timestamp)
        => (last'.result = "OutOfOrderAppend"
               /\ motion_history' = motion_history) ]_vars


\* The operations that only read the session.
ReadOnlyOps ==
    {"get_motion_sequence", "get_primitive_sequence", "get_statistics",
     "save_sequence"}

\* C24: get_motion_sequence, get_primitive_sequence, get_statistics and
\* save_sequence leave the history, the distinct-primitive set and the
\* session start time as they were, whether they succeed or fail; a step
\* that changes any of the three is a create_descriptor or a clear_history.
C24_ReadOnlyOperations ==
    [][ /\ last'.op \in ReadOnlyOps => UNCHANGED session
        /\ session' # session =>
               last'.op \in {"create_descriptor", "clear_history"} ]_vars

\* C24 witness: a save that failed on a session cleared earlier and holding
\* a descriptor.
C24_Witness ==
    /\ last.op = "save_sequence"
    /\ last.printed = "Error saving motion data"
    /\ cleared
    /\ Len(motion_history) = 1
    /\ primitives_seen # {}
    /\ recording_start_time # None


\* The named landmarks of a descriptor.
LandmarkNames ==
    {"wrist", "thumb_tip", "index_tip", "middle_tip", "ring_tip", "pinky_tip"}

\* Whether the float quotient a / b lies in [0, 1].
InUnitInterval(a, b) ==
    LET q == FromRatio(a, b)
    IN  FLeq(FZero, q) /\ FLeq(q, FromRatio(1, 1))

\* C25: a create_descriptor call that returns a descriptor stores normalized
\* landmarks exactly when it was given a frame-size hint; with a hint
\* (height, width), each named landmark's normalized x is its pixel x
\* divided by the width and its normalized y its pixel y divided by the
\* height, and both lie in [0, 1] when the landmark lies inside the frame.
C25_Normalized ==
    [][ \A fr \in NormFrames, fs \in NormShapes :
          (/\ last'.result = "descriptor"
           /\ create_descriptor(fr[1], fr[2], fs, 0, 0))
          => LET d == motion_history'[Len(motion_history')]
             IN  /\ (d.normalized # None) <=> (fs # None)
                 /\ fs # None =>
                      \A n \in LandmarkNames :
                         /\ Val(d.normalized)[n].x = Div(d.landmarks[n].x, fs[2])
                         /\ Val(d.normalized)[n].y = Div(d.landmarks[n].y, fs[1])
                 /\ fs # None =>
                      \A q \in {Val(d.normalized)[n] : n \in LandmarkNames} :
                         (q.x[1] \in 0 .. fs[2] /\ q.y[1] \in 0 .. fs[1])
                            => /\ InUnitInterval(q.x[1], q.x[2])
                               /\ InUnitInterval(q.y[1], q.y[2]) ]_vars

\* C25 witness: one history holds a descriptor built without a hint and one
\* built with the hint (120, 160) whose wrist lies on the frame's corner.
C25_Witness ==
    /\ Len(motion_history) = 2
    /\ motion_history[1].normalized = None
    /\ motion_history[2].normalized # None
    /\ motion_history[2].landmarks.wrist = [x |-> 160, y |-> 120]
    /\ Val(motion_history[2].normalized).wrist
          = [x |-> Div(160, 160), y |-> Div(120, 120)]
    /\ Val(motion_history[2].normalized).thumb_tip
          = [x |-> Div(100, 160), y |-> Div(100, 120)]


\* C26: the velocity of a descriptor is the index-tip displacement from the
\* preceding descriptor divided by the difference of the two capture
\* times.
C26_VelocityOverCaptureTimes ==
    \A i \in 2 .. Len(motion_history) :
        LET d  == motion_history[i]
            p  == motion_history[i - 1]
            dt == d.timestamp - p.timestamp
        IN  d.velocity # None =>
               /\ Val(d.velocity).vx =
                     Div(d.landmarks.index_tip.x - p.landmarks.index_tip.x, dt)
               /\ Val(d.velocity).vy =
                     Div(d.landmarks.index_tip.y - p.landmarks.index_tip.y, dt)


\* C27: the session start time is unset exactly when the history is empty,
\* and otherwise is the capture time of the first descriptor of the
\* history.
C27_StartTimeTracksHistory ==
    /\ (recording_start_time = None) <=> (motion_history = <<>>)
    /\ motion_history # <<>> =>
          recording_start_time = Some(motion_history[1].timestamp)


\* The fields of a main loop's state that belong to the program.
AppFields == <<app.recording_mode, app.gesture_name, app.frame_count>>

\* C28: in both main loops, the record a save by 's' writes holds exactly
\* the descriptors of the history, all created in passes after the pass in
\* which recording last started, the first with frame index 0; and 's' and
\* 'c' outside recording mode, and 'r' inside it, change neither the
\* session, nor the file, nor the program's state.
C28_RecordsStartAtR ==
    [][ /\ (/\ app.pc = "key"
            /\ app.recording_mode
            /\ app'.key = "s"
            /\ last'.op = "save_sequence"
            /\ last'.printed = "Saved")
           => /\ Val(disk').value.frames # <<>>
              /\ Len(Val(disk').value.frames) = Len(motion_history)
              /\ \A k \in 1 .. Len(motion_history) :
                    /\ PyFrame(Val(disk').value.frames[k]) = motion_history[k]
                    /\ motion_history[k].timestamp > app.r_tick
              /\ Val(disk').value.frames[1].frame_num = 0
        /\ (/\ app.pc = "key"
            /\ \/ app'.key \in {"s", "c"} /\ ~app.recording_mode
               \/ app'.key = "r" /\ app.recording_mode)
           => /\ UNCHANGED <<session, disk>>
              /\ AppFields' = AppFields ]_vars

\* C28 witness: the main program has just saved a record of one frame,
\* captured in pass 6, of a recording started at the end of pass 5, after
\* an earlier recording that was saved with a frame of pass 2 and one
\* that was started at the end of pass 3 and cancelled in pass 4.
C28_Witness ==
    /\ app.kind = "main"
    /\ app.key = "s"
    /\ last.op = "save_sequence"
    /\ last.printed = "Saved"
    /\ app.ended = <<"saved", "cancelled", "saved">>
    /\ app.r_tick = 5
    /\ Len(Val(disk).value.frames) = 1
    /\ Val(disk).value.frames[1].timestamp = 6


\* C29: in the recording mode of AiVirtualMouseProject.py frame_count is
\* the number of descriptors in the history after every pass, whatever the
\* detector returned; so an 's' handled with frame_count > 0 finds a
\* history that is not empty, writes a record, and its get_statistics
\* returns the populated result.
C29_FrameCountIsHistoryLength ==
    /\ (app.kind = "main" /\ app.recording_mode)
          => app.frame_count = Len(motion_history)
    /\ (app.kind = "main" /\ app.pc = "stats")
          => /\ motion_history # <<>>
             /\ last.printed # "Warning: No motion history to save"
    /\ (app.kind = "main" /\ last.op = "get_statistics")
          => "total_frames" \in DOMAIN last.result


\* C30: every attempt of a batch session starts from a cleared history,
\* and the manifest lists exactly the attempts that completed with at
\* least 20 frames, were not cancelled and were not discarded by a retry:
\* every listed path names a record file that exists when the manifest is
\* written, no path is listed twice, and total_recordings is the number of
\* listed paths.
C30_ManifestListsRecordings ==
    /\ (app.pc = "loop" /\ app.frame_count = 0) => motion_history = <<>>
    /\ app.manifest # None =>
          LET m == Val(app.manifest)
          IN  /\ m.total_recordings = Len(m.recordings)
              /\ \A i, j \in 1 .. Len(m.recordings) :
                    i # j => m.recordings[i] # m.recordings[j]
              /\ {<<m.recordings[i][1], m.recordings[i][2]>> :
                     i \in 1 .. Len(m.recordings)} = app.kept
              /\ \A i \in 1 .. Len(m.recordings) :
                    m.recordings[i] \in app.files

====
